---------------------------- MODULE Spec2Model ----------------------------
(***************************************************************************)
(* Model of src/app.py: the Streamlit page main() and the three functions  *)
(* it composes, call_ultralytics_api, interpret_results and                *)
(* draw_bounding_boxes.                                                    *)
(*                                                                         *)
(* Python values are encoded as follows.                                   *)
(*   str        the sequence of its code points, so that lower() and       *)
(*              strip() are computed per character;                        *)
(*   dict       a function whose DOMAIN is the set of keys present;        *)
(*   list       a sequence;                                                *)
(*   JSON slot  None (JSON null, and what dict.get returns for an absent   *)
(*              key) is <<>>, any other value v is Some(v) = <<v>>.        *)
(* The "confidence" field of a detection is read at line 63 and never      *)
(* used; detections of the model do not carry it.                          *)
(***************************************************************************)
EXTENDS Integers, Sequences, FiniteSets

VARIABLES
    API_KEY,          \* module global set at import, line 11
    checkbox,         \* the st.checkbox widget as the browser holds it
    uploader,         \* the st.file_uploader widget as the browser holds it
    rerun_requested,  \* a widget changed while main() was running
    agree,            \* local of main(), line 121
    uploaded_file,    \* local of main(), line 127
    pc,               \* position of the current run of main()
    display,          \* elements the current run has put on the page, in order
    posts,            \* requests.post calls made by the current run
    result_json,      \* local of main(), line 138
    verdict,          \* (message, detections, positive), line 139
    annotated_image,  \* rectangles drawn on the image, line 140
    exc               \* the exception caught at line 151, if any

vars == <<API_KEY, checkbox, uploader, rerun_requested, agree, uploaded_file,
          pc, display, posts, result_json, verdict, annotated_image, exc>>

\* Longest detection list the remote service returns in the model.
MaxDets == 2

---------------------------------------------------------------------------
(* Python values *)

None == <<>>
Some(v) == <<v>>
IsNone(x) == x = None
Val(x) == x[1]

\* dict.get(key): None when the key is absent (or maps to null).
Get(d, k) == IF k \in DOMAIN d THEN d[k] ELSE None
\* dict.get(key, default): the default only when the key is absent.
GetDefault(d, k, dflt) == IF k \in DOMAIN d THEN d[k] ELSE dflt

\* str.lower() follows the Unicode database of the interpreter (14.0.0).
\* Each <<lo, hi, step, delta>> says that the code points lo, lo + step, ..,
\* hi above 127 lower-case to themselves plus delta.
LowerRuns ==
    {
     <<192,214,1,32>>, <<216,222,1,32>>, <<256,302,2,1>>, <<306,310,2,1>>,
     <<313,327,2,1>>, <<330,374,2,1>>, <<376,376,1,-121>>, <<377,381,2,1>>,
     <<385,385,1,210>>, <<386,388,2,1>>, <<390,390,1,206>>, <<391,391,1,1>>,
     <<393,394,1,205>>, <<395,395,1,1>>, <<398,398,1,79>>, <<399,399,1,202>>,
     <<400,400,1,203>>, <<401,401,1,1>>, <<403,403,1,205>>, <<404,404,1,207>>,
     <<406,406,1,211>>, <<407,407,1,209>>, <<408,408,1,1>>, <<412,412,1,211>>,
     <<413,413,1,213>>, <<415,415,1,214>>, <<416,420,2,1>>, <<422,422,1,218>>,
     <<423,423,1,1>>, <<425,425,1,218>>, <<428,428,1,1>>, <<430,430,1,218>>,
     <<431,431,1,1>>, <<433,434,1,217>>, <<435,437,2,1>>, <<439,439,1,219>>,
     <<440,440,1,1>>, <<444,444,1,1>>, <<452,452,1,2>>, <<453,453,1,1>>,
     <<455,455,1,2>>, <<456,456,1,1>>, <<458,458,1,2>>, <<459,475,2,1>>,
     <<478,494,2,1>>, <<497,497,1,2>>, <<498,500,2,1>>, <<502,502,1,-97>>,
     <<503,503,1,-56>>, <<504,542,2,1>>, <<544,544,1,-130>>, <<546,562,2,1>>,
     <<570,570,1,10795>>, <<571,571,1,1>>, <<573,573,1,-163>>, <<574,574,1,10792>>,
     <<577,577,1,1>>, <<579,579,1,-195>>, <<580,580,1,69>>, <<581,581,1,71>>,
     <<582,590,2,1>>, <<880,882,2,1>>, <<886,886,1,1>>, <<895,895,1,116>>,
     <<902,902,1,38>>, <<904,906,1,37>>, <<908,908,1,64>>, <<910,911,1,63>>,
     <<913,929,1,32>>, <<932,939,1,32>>, <<975,975,1,8>>, <<984,1006,2,1>>,
     <<1012,1012,1,-60>>, <<1015,1015,1,1>>, <<1017,1017,1,-7>>, <<1018,1018,1,1>>,
     <<1021,1023,1,-130>>, <<1024,1039,1,80>>, <<1040,1071,1,32>>, <<1120,1152,2,1>>,
     <<1162,1214,2,1>>, <<1216,1216,1,15>>, <<1217,1229,2,1>>, <<1232,1326,2,1>>,
     <<1329,1366,1,48>>, <<4256,4293,1,7264>>, <<4295,4295,1,7264>>, <<4301,4301,1,7264>>,
     <<5024,5103,1,38864>>, <<5104,5109,1,8>>, <<7312,7354,1,-3008>>, <<7357,7359,1,-3008>>,
     <<7680,7828,2,1>>, <<7838,7838,1,-7615>>, <<7840,7934,2,1>>, <<7944,7951,1,-8>>,
     <<7960,7965,1,-8>>, <<7976,7983,1,-8>>, <<7992,7999,1,-8>>, <<8008,8013,1,-8>>,
     <<8025,8031,2,-8>>, <<8040,8047,1,-8>>, <<8072,8079,1,-8>>, <<8088,8095,1,-8>>,
     <<8104,8111,1,-8>>, <<8120,8121,1,-8>>, <<8122,8123,1,-74>>, <<8124,8124,1,-9>>,
     <<8136,8139,1,-86>>, <<8140,8140,1,-9>>, <<8152,8153,1,-8>>, <<8154,8155,1,-100>>,
     <<8168,8169,1,-8>>, <<8170,8171,1,-112>>, <<8172,8172,1,-7>>, <<8184,8185,1,-128>>,
     <<8186,8187,1,-126>>, <<8188,8188,1,-9>>, <<8486,8486,1,-7517>>, <<8490,8490,1,-8383>>,
     <<8491,8491,1,-8262>>, <<8498,8498,1,28>>, <<8544,8559,1,16>>, <<8579,8579,1,1>>,
     <<9398,9423,1,26>>, <<11264,11311,1,48>>, <<11360,11360,1,1>>, <<11362,11362,1,-10743>>,
     <<11363,11363,1,-3814>>, <<11364,11364,1,-10727>>, <<11367,11371,2,1>>, <<11373,11373,1,-10780>>,
     <<11374,11374,1,-10749>>, <<11375,11375,1,-10783>>, <<11376,11376,1,-10782>>, <<11378,11378,1,1>>,
     <<11381,11381,1,1>>, <<11390,11391,1,-10815>>, <<11392,11490,2,1>>, <<11499,11501,2,1>>,
     <<11506,11506,1,1>>, <<42560,42604,2,1>>, <<42624,42650,2,1>>, <<42786,42798,2,1>>,
     <<42802,42862,2,1>>, <<42873,42875,2,1>>, <<42877,42877,1,-35332>>, <<42878,42886,2,1>>,
     <<42891,42891,1,1>>, <<42893,42893,1,-42280>>, <<42896,42898,2,1>>, <<42902,42920,2,1>>,
     <<42922,42922,1,-42308>>, <<42923,42923,1,-42319>>, <<42924,42924,1,-42315>>, <<42925,42925,1,-42305>>,
     <<42926,42926,1,-42308>>, <<42928,42928,1,-42258>>, <<42929,42929,1,-42282>>, <<42930,42930,1,-42261>>,
     <<42931,42931,1,928>>, <<42932,42946,2,1>>, <<42948,42948,1,-48>>, <<42949,42949,1,-42307>>,
     <<42950,42950,1,-35384>>, <<42951,42953,2,1>>, <<42960,42960,1,1>>, <<42966,42968,2,1>>,
     <<42997,42997,1,1>>, <<65313,65338,1,32>>, <<66560,66599,1,40>>, <<66736,66771,1,40>>,
     <<66928,66964,2,39>>, <<66929,66937,2,39>>, <<66941,66953,2,39>>, <<66957,66961,2,39>>,
     <<66965,66965,1,39>>, <<68736,68786,1,64>>, <<71840,71871,1,32>>, <<93760,93791,1,32>>,
     <<125184,125217,1,34>>
    }
\* Case-ignorable code points, as ranges <<lo, hi>>.
CaseIgnorable ==
    {
     <<39,39>>, <<46,46>>, <<58,58>>, <<94,94>>, <<96,96>>,
     <<168,168>>, <<173,173>>, <<175,175>>, <<180,180>>, <<183,184>>,
     <<688,879>>, <<884,885>>, <<890,890>>, <<900,901>>, <<903,903>>,
     <<1155,1161>>, <<1369,1369>>, <<1375,1375>>, <<1425,1469>>, <<1471,1471>>,
     <<1473,1474>>, <<1476,1477>>, <<1479,1479>>, <<1524,1524>>, <<1536,1541>>,
     <<1552,1562>>, <<1564,1564>>, <<1600,1600>>, <<1611,1631>>, <<1648,1648>>,
     <<1750,1757>>, <<1759,1768>>, <<1770,1773>>, <<1807,1807>>, <<1809,1809>>,
     <<1840,1866>>, <<1958,1968>>, <<2027,2037>>, <<2042,2042>>, <<2045,2045>>,
     <<2070,2093>>, <<2137,2139>>, <<2184,2184>>, <<2192,2193>>, <<2200,2207>>,
     <<2249,2306>>, <<2362,2362>>, <<2364,2364>>, <<2369,2376>>, <<2381,2381>>,
     <<2385,2391>>, <<2402,2403>>, <<2417,2417>>, <<2433,2433>>, <<2492,2492>>,
     <<2497,2500>>, <<2509,2509>>, <<2530,2531>>, <<2558,2558>>, <<2561,2562>>,
     <<2620,2620>>, <<2625,2626>>, <<2631,2632>>, <<2635,2637>>, <<2641,2641>>,
     <<2672,2673>>, <<2677,2677>>, <<2689,2690>>, <<2748,2748>>, <<2753,2757>>,
     <<2759,2760>>, <<2765,2765>>, <<2786,2787>>, <<2810,2815>>, <<2817,2817>>,
     <<2876,2876>>, <<2879,2879>>, <<2881,2884>>, <<2893,2893>>, <<2901,2902>>,
     <<2914,2915>>, <<2946,2946>>, <<3008,3008>>, <<3021,3021>>, <<3072,3072>>,
     <<3076,3076>>, <<3132,3132>>, <<3134,3136>>, <<3142,3144>>, <<3146,3149>>,
     <<3157,3158>>, <<3170,3171>>, <<3201,3201>>, <<3260,3260>>, <<3263,3263>>,
     <<3270,3270>>, <<3276,3277>>, <<3298,3299>>, <<3328,3329>>, <<3387,3388>>,
     <<3393,3396>>, <<3405,3405>>, <<3426,3427>>, <<3457,3457>>, <<3530,3530>>,
     <<3538,3540>>, <<3542,3542>>, <<3633,3633>>, <<3636,3642>>, <<3654,3662>>,
     <<3761,3761>>, <<3764,3772>>, <<3782,3782>>, <<3784,3789>>, <<3864,3865>>,
     <<3893,3893>>, <<3895,3895>>, <<3897,3897>>, <<3953,3966>>, <<3968,3972>>,
     <<3974,3975>>, <<3981,3991>>, <<3993,4028>>, <<4038,4038>>, <<4141,4144>>,
     <<4146,4151>>, <<4153,4154>>, <<4157,4158>>, <<4184,4185>>, <<4190,4192>>,
     <<4209,4212>>, <<4226,4226>>, <<4229,4230>>, <<4237,4237>>, <<4253,4253>>,
     <<4348,4348>>, <<4957,4959>>, <<5906,5908>>, <<5938,5939>>, <<5970,5971>>,
     <<6002,6003>>, <<6068,6069>>, <<6071,6077>>, <<6086,6086>>, <<6089,6099>>,
     <<6103,6103>>, <<6109,6109>>, <<6155,6159>>, <<6211,6211>>, <<6277,6278>>,
     <<6313,6313>>, <<6432,6434>>, <<6439,6440>>, <<6450,6450>>, <<6457,6459>>,
     <<6679,6680>>, <<6683,6683>>, <<6742,6742>>, <<6744,6750>>, <<6752,6752>>,
     <<6754,6754>>, <<6757,6764>>, <<6771,6780>>, <<6783,6783>>, <<6823,6823>>,
     <<6832,6862>>, <<6912,6915>>, <<6964,6964>>, <<6966,6970>>, <<6972,6972>>,
     <<6978,6978>>, <<7019,7027>>, <<7040,7041>>, <<7074,7077>>, <<7080,7081>>,
     <<7083,7085>>, <<7142,7142>>, <<7144,7145>>, <<7149,7149>>, <<7151,7153>>,
     <<7212,7219>>, <<7222,7223>>, <<7288,7293>>, <<7376,7378>>, <<7380,7392>>,
     <<7394,7400>>, <<7405,7405>>, <<7412,7412>>, <<7416,7417>>, <<7468,7530>>,
     <<7544,7544>>, <<7579,7679>>, <<8125,8125>>, <<8127,8129>>, <<8141,8143>>,
     <<8157,8159>>, <<8173,8175>>, <<8189,8190>>, <<8203,8207>>, <<8216,8217>>,
     <<8228,8228>>, <<8231,8231>>, <<8234,8238>>, <<8288,8292>>, <<8294,8303>>,
     <<8305,8305>>, <<8319,8319>>, <<8336,8348>>, <<8400,8432>>, <<11388,11389>>,
     <<11503,11505>>, <<11631,11631>>, <<11647,11647>>, <<11744,11775>>, <<11823,11823>>,
     <<12293,12293>>, <<12330,12333>>, <<12337,12341>>, <<12347,12347>>, <<12441,12446>>,
     <<12540,12542>>, <<40981,40981>>, <<42232,42237>>, <<42508,42508>>, <<42607,42610>>,
     <<42612,42621>>, <<42623,42623>>, <<42652,42655>>, <<42736,42737>>, <<42752,42785>>,
     <<42864,42864>>, <<42888,42890>>, <<42994,42996>>, <<43000,43001>>, <<43010,43010>>,
     <<43014,43014>>, <<43019,43019>>, <<43045,43046>>, <<43052,43052>>, <<43204,43205>>,
     <<43232,43249>>, <<43263,43263>>, <<43302,43309>>, <<43335,43345>>, <<43392,43394>>,
     <<43443,43443>>, <<43446,43449>>, <<43452,43453>>, <<43471,43471>>, <<43493,43494>>,
     <<43561,43566>>, <<43569,43570>>, <<43573,43574>>, <<43587,43587>>, <<43596,43596>>,
     <<43632,43632>>, <<43644,43644>>, <<43696,43696>>, <<43698,43700>>, <<43703,43704>>,
     <<43710,43711>>, <<43713,43713>>, <<43741,43741>>, <<43756,43757>>, <<43763,43764>>,
     <<43766,43766>>, <<43867,43871>>, <<43881,43883>>, <<44005,44005>>, <<44008,44008>>,
     <<44013,44013>>, <<64286,64286>>, <<64434,64450>>, <<65024,65039>>, <<65043,65043>>,
     <<65056,65071>>, <<65106,65106>>, <<65109,65109>>, <<65279,65279>>, <<65287,65287>>,
     <<65294,65294>>, <<65306,65306>>, <<65342,65342>>, <<65344,65344>>, <<65392,65392>>,
     <<65438,65439>>, <<65507,65507>>, <<65529,65531>>, <<66045,66045>>, <<66272,66272>>,
     <<66422,66426>>, <<67456,67461>>, <<67463,67504>>, <<67506,67514>>, <<68097,68099>>,
     <<68101,68102>>, <<68108,68111>>, <<68152,68154>>, <<68159,68159>>, <<68325,68326>>,
     <<68900,68903>>, <<69291,69292>>, <<69446,69456>>, <<69506,69509>>, <<69633,69633>>,
     <<69688,69702>>, <<69744,69744>>, <<69747,69748>>, <<69759,69761>>, <<69811,69814>>,
     <<69817,69818>>, <<69821,69821>>, <<69826,69826>>, <<69837,69837>>, <<69888,69890>>,
     <<69927,69931>>, <<69933,69940>>, <<70003,70003>>, <<70016,70017>>, <<70070,70078>>,
     <<70089,70092>>, <<70095,70095>>, <<70191,70193>>, <<70196,70196>>, <<70198,70199>>,
     <<70206,70206>>, <<70367,70367>>, <<70371,70378>>, <<70400,70401>>, <<70459,70460>>,
     <<70464,70464>>, <<70502,70508>>, <<70512,70516>>, <<70712,70719>>, <<70722,70724>>,
     <<70726,70726>>, <<70750,70750>>, <<70835,70840>>, <<70842,70842>>, <<70847,70848>>,
     <<70850,70851>>, <<71090,71093>>, <<71100,71101>>, <<71103,71104>>, <<71132,71133>>,
     <<71219,71226>>, <<71229,71229>>, <<71231,71232>>, <<71339,71339>>, <<71341,71341>>,
     <<71344,71349>>, <<71351,71351>>, <<71453,71455>>, <<71458,71461>>, <<71463,71467>>,
     <<71727,71735>>, <<71737,71738>>, <<71995,71996>>, <<71998,71998>>, <<72003,72003>>,
     <<72148,72151>>, <<72154,72155>>, <<72160,72160>>, <<72193,72202>>, <<72243,72248>>,
     <<72251,72254>>, <<72263,72263>>, <<72273,72278>>, <<72281,72283>>, <<72330,72342>>,
     <<72344,72345>>, <<72752,72758>>, <<72760,72765>>, <<72767,72767>>, <<72850,72871>>,
     <<72874,72880>>, <<72882,72883>>, <<72885,72886>>, <<73009,73014>>, <<73018,73018>>,
     <<73020,73021>>, <<73023,73029>>, <<73031,73031>>, <<73104,73105>>, <<73109,73109>>,
     <<73111,73111>>, <<73459,73460>>, <<78896,78904>>, <<92912,92916>>, <<92976,92982>>,
     <<92992,92995>>, <<94031,94031>>, <<94095,94111>>, <<94176,94177>>, <<94179,94180>>,
     <<110576,110579>>, <<110581,110587>>, <<110589,110590>>, <<113821,113822>>, <<113824,113827>>,
     <<118528,118573>>, <<118576,118598>>, <<119143,119145>>, <<119155,119170>>, <<119173,119179>>,
     <<119210,119213>>, <<119362,119364>>, <<121344,121398>>, <<121403,121452>>, <<121461,121461>>,
     <<121476,121476>>, <<121499,121503>>, <<121505,121519>>, <<122880,122886>>, <<122888,122904>>,
     <<122907,122913>>, <<122915,122916>>, <<122918,122922>>, <<123184,123197>>, <<123566,123566>>,
     <<123628,123631>>, <<125136,125142>>, <<125252,125259>>, <<127995,127999>>, <<917505,917505>>,
     <<917536,917631>>, <<917760,917999>>
    }
\* Cased code points that are not case-ignorable, as ranges <<lo, hi>>.
CasedLetters ==
    {
     <<65,90>>, <<97,122>>, <<170,170>>, <<181,181>>, <<186,186>>,
     <<192,214>>, <<216,246>>, <<248,442>>, <<444,447>>, <<452,659>>,
     <<661,687>>, <<880,883>>, <<886,887>>, <<891,893>>, <<895,895>>,
     <<902,902>>, <<904,906>>, <<908,908>>, <<910,929>>, <<931,1013>>,
     <<1015,1153>>, <<1162,1327>>, <<1329,1366>>, <<1376,1416>>, <<4256,4293>>,
     <<4295,4295>>, <<4301,4301>>, <<4304,4346>>, <<4349,4351>>, <<5024,5109>>,
     <<5112,5117>>, <<7296,7304>>, <<7312,7354>>, <<7357,7359>>, <<7424,7467>>,
     <<7531,7543>>, <<7545,7578>>, <<7680,7957>>, <<7960,7965>>, <<7968,8005>>,
     <<8008,8013>>, <<8016,8023>>, <<8025,8025>>, <<8027,8027>>, <<8029,8029>>,
     <<8031,8061>>, <<8064,8116>>, <<8118,8124>>, <<8126,8126>>, <<8130,8132>>,
     <<8134,8140>>, <<8144,8147>>, <<8150,8155>>, <<8160,8172>>, <<8178,8180>>,
     <<8182,8188>>, <<8450,8450>>, <<8455,8455>>, <<8458,8467>>, <<8469,8469>>,
     <<8473,8477>>, <<8484,8484>>, <<8486,8486>>, <<8488,8488>>, <<8490,8493>>,
     <<8495,8500>>, <<8505,8505>>, <<8508,8511>>, <<8517,8521>>, <<8526,8526>>,
     <<8544,8575>>, <<8579,8580>>, <<9398,9449>>, <<11264,11387>>, <<11390,11492>>,
     <<11499,11502>>, <<11506,11507>>, <<11520,11557>>, <<11559,11559>>, <<11565,11565>>,
     <<42560,42605>>, <<42624,42651>>, <<42786,42863>>, <<42865,42887>>, <<42891,42894>>,
     <<42896,42954>>, <<42960,42961>>, <<42963,42963>>, <<42965,42969>>, <<42997,42998>>,
     <<43002,43002>>, <<43824,43866>>, <<43872,43880>>, <<43888,43967>>, <<64256,64262>>,
     <<64275,64279>>, <<65313,65338>>, <<65345,65370>>, <<66560,66639>>, <<66736,66771>>,
     <<66776,66811>>, <<66928,66938>>, <<66940,66954>>, <<66956,66962>>, <<66964,66965>>,
     <<66967,66977>>, <<66979,66993>>, <<66995,67001>>, <<67003,67004>>, <<68736,68786>>,
     <<68800,68850>>, <<71840,71903>>, <<93760,93823>>, <<119808,119892>>, <<119894,119964>>,
     <<119966,119967>>, <<119970,119970>>, <<119973,119974>>, <<119977,119980>>, <<119982,119993>>,
     <<119995,119995>>, <<119997,120003>>, <<120005,120069>>, <<120071,120074>>, <<120077,120084>>,
     <<120086,120092>>, <<120094,120121>>, <<120123,120126>>, <<120128,120132>>, <<120134,120134>>,
     <<120138,120144>>, <<120146,120485>>, <<120488,120512>>, <<120514,120538>>, <<120540,120570>>,
     <<120572,120596>>, <<120598,120628>>, <<120630,120654>>, <<120656,120686>>, <<120688,120712>>,
     <<120714,120744>>, <<120746,120770>>, <<120772,120779>>, <<122624,122633>>, <<122635,122654>>,
     <<125184,125251>>, <<127280,127305>>, <<127312,127337>>, <<127344,127369>>
    }
InRanges(c, rs) == \E r \in rs : r[1] <= c /\ c <= r[2]

\* str.lower() of one character other than capital sigma; U+0130 gives two.
LowerChar(c) ==
    IF c <= 127 THEN (IF c >= 65 /\ c <= 90 THEN <<c + 32>> ELSE <<c>>)
    ELSE IF c = 304 THEN <<105, 775>>
    ELSE IF \E r \in LowerRuns : r[1] <= c /\ c <= r[2] /\ (c - r[1]) % r[3] = 0
    THEN LET r == CHOOSE r \in LowerRuns :
                      r[1] <= c /\ c <= r[2] /\ (c - r[1]) % r[3] = 0
         IN  <<c + r[4]>>
    ELSE <<c>>

\* Capital sigma (U+03A3) at s[i]: the final form U+03C2 when, skipping
\* case-ignorable characters, a cased letter precedes it and none follows.
LowerSigma(s, i) ==
    LET before == {j \in 1..(i - 1) : ~InRanges(s[j], CaseIgnorable)}
        after == {j \in (i + 1)..Len(s) : ~InRanges(s[j], CaseIgnorable)}
        last == CHOOSE j \in before : \A k \in before : k <= j
        first == CHOOSE j \in after : \A k \in after : j <= k
    IN  IF /\ before # {}
           /\ InRanges(s[last], CasedLetters)
           /\ (after = {} \/ ~InRanges(s[first], CasedLetters))
        THEN 962 ELSE 963

RECURSIVE Concat(_)
Concat(ss) == IF ss = <<>> THEN <<>> ELSE Head(ss) \o Concat(Tail(ss))

\* str.lower()
Lower(s) ==
    Concat([i \in 1..Len(s) |->
              IF s[i] = 931 THEN <<LowerSigma(s, i)>> ELSE LowerChar(s[i])])

\* The characters str.strip() removes (those with str.isspace()): \t \n \v
\* \f \r, U+001C-001F, space, U+0085, U+00A0 and the Unicode spaces.
Whitespace ==
    (9..13) \cup (28..32) \cup {133, 160, 5760} \cup (8192..8202)
        \cup {8232, 8233, 8239, 8287, 12288}
\* str.strip(): drop the leading and the trailing run of whitespace.
Strip(s) ==
    LET ink == {i \in 1..Len(s) : s[i] \notin Whitespace}
    IN  IF ink = {} THEN <<>>
        ELSE LET lo == CHOOSE i \in ink : \A j \in ink : i <= j
                 hi == CHOOSE i \in ink : \A j \in ink : j <= i
             IN  SubSeq(s, lo, hi)

S_normal == <<110,111,114,109,97,108>>  \* "normal"
S_kidney == <<107,105,100,110,101,121>>  \* "kidney"
S_object == <<111,98,106,101,99,116>>  \* "object"
\* The set literal of lines 39 and 66.
normal_labels == {S_normal \o <<32>> \o S_kidney,
                  S_normal \o <<95>> \o S_kidney,
                  S_normal}

\* Python truthiness of an optional list, dict or str: None and empty are falsy.
Falsy(x) == IsNone(x) \/ DOMAIN Val(x) = {}

---------------------------------------------------------------------------
(* Exceptions.  type is the Python class; status is the HTTP status an     *)
(* HTTPError carries (0 otherwise).                                        *)

NoExc == [type |-> "", status |-> 0]
Raise(t) == [type |-> t, status |-> 0]
\* line 17
MissingKeyError == Raise("RuntimeError: Ultralytics API key is missing.")
HTTPError(s) == [type |-> "requests.HTTPError", status |-> s]

---------------------------------------------------------------------------
(* call_ultralytics_api, lines 15-26.  net is what the network does with   *)
(* the one request: kind "timeout" | "connection" | "response", the        *)
(* response's status and its body (None when the body is not JSON).        *)
(* The result names the exception raised, the number of requests.post      *)
(* calls made, the number of connections opened, and the value returned.   *)

\* requests checks the x-api-key value before anything is sent: re.match of
\* ^\S[^\r\n]*$|^$, where $ also matches before one final line feed.
header_ok(v) ==
    LET body == IF v # <<>> /\ v[Len(v)] = 10 THEN SubSeq(v, 1, Len(v) - 1)
                ELSE v
    IN  \/ body = <<>>
        \/ /\ body[1] \notin Whitespace
           /\ \A i \in 1..Len(body) : body[i] \notin {10, 13}

Outcome(e, p, c, v) == [raised |-> e, posts |-> p, connects |-> c, value |-> v]

\* lines 19-26: the request, raise_for_status and response.json().  Once the
\* connection is made http.client encodes the header value as Latin-1 and
\* then refuses the final line feed requests let through, both before
\* anything is sent.
post_and_parse(key, image_bytes, net) ==
    IF ~header_ok(key)
    THEN Outcome(Raise("requests.InvalidHeader"), 1, 0, None)
    ELSE IF net.kind = "connection"
    THEN Outcome(Raise("requests.ConnectionError"), 1, 1, None)
    ELSE IF \E i \in 1..Len(key) : key[i] > 255
    THEN Outcome(Raise("UnicodeEncodeError"), 1, 1, None)
    ELSE IF key # <<>> /\ key[Len(key)] = 10
    THEN Outcome(Raise("ValueError: Invalid header value"), 1, 1, None)
    ELSE IF net.kind = "timeout"
    THEN Outcome(Raise("requests.Timeout"), 1, 1, None)
    ELSE IF net.status >= 400 /\ net.status < 600
    THEN Outcome(HTTPError(net.status), 1, 1, None)
    ELSE IF IsNone(net.body)
    THEN Outcome(Raise("requests.JSONDecodeError"), 1, 1, None)
    ELSE Outcome(NoExc, 1, 1, Val(net.body))

\* Mutant: the check of lines 16-17 is missing.
call_ultralytics_api_nocheck(key, image_bytes, net) ==
    post_and_parse(key, image_bytes, net)

\* line 16: not API_KEY
call_ultralytics_api(key, image_bytes, net) ==
    IF key = <<>>
    THEN Outcome(MissingKeyError, 0, 0, None)
    ELSE post_and_parse(key, image_bytes, net)

---------------------------------------------------------------------------
(* interpret_results, lines 29-45. *)

MsgNoPrediction == "No prediction available"
MsgNormal == "Normal Kidney (no stones detected)"
MsgStone == "Kidney Stone Detected"

\* (det.get("name") or "")
NameOrEmpty(det) ==
    IF Falsy(Get(det, "name")) THEN <<>> ELSE Val(Get(det, "name"))

\* One term of the any() of line 40.
is_non_normal(det) == Lower(NameOrEmpty(det)) \notin normal_labels

\* Mutant: all() in place of any() at line 40.
interpret_results_all(rj) ==
    LET images == GetDefault(rj, "images", Some(<<>>))
    IN  IF Falsy(images)
        THEN [message |-> MsgNoPrediction, detections |-> Some(<<>>),
              positive |-> FALSE]
        ELSE
        LET results == GetDefault(Val(images)[1], "results", Some(<<>>))
        IN  IF Falsy(results)
            THEN [message |-> MsgNormal, detections |-> results,
                  positive |-> FALSE]
            ELSE IF \A i \in 1..Len(Val(results)) : is_non_normal(Val(results)[i])
            THEN [message |-> MsgStone, detections |-> results,
                  positive |-> TRUE]
            ELSE [message |-> MsgNormal, detections |-> results,
                  positive |-> FALSE]

\* Mutant: the empty-results case of lines 35-36 answers as line 32 does.
interpret_results_empty_unavailable(rj) ==
    LET images == GetDefault(rj, "images", Some(<<>>))
    IN  IF Falsy(images)
        THEN [message |-> MsgNoPrediction, detections |-> Some(<<>>),
              positive |-> FALSE]
        ELSE
        LET results == GetDefault(Val(images)[1], "results", Some(<<>>))
        IN  IF Falsy(results)
            THEN [message |-> MsgNoPrediction, detections |-> Some(<<>>),
                  positive |-> FALSE]
            ELSE IF \E i \in 1..Len(Val(results)) : is_non_normal(Val(results)[i])
            THEN [message |-> MsgStone, detections |-> results,
                  positive |-> TRUE]
            ELSE [message |-> MsgNormal, detections |-> results,
                  positive |-> FALSE]

\* Mutant: the no-images case of lines 31-32 answers as line 36 does.
interpret_results_no_images_normal(rj) ==
    LET images == GetDefault(rj, "images", Some(<<>>))
    IN  IF Falsy(images)
        THEN [message |-> MsgNormal, detections |-> Some(<<>>),
              positive |-> FALSE]
        ELSE
        LET results == GetDefault(Val(images)[1], "results", Some(<<>>))
        IN  IF Falsy(results)
            THEN [message |-> MsgNormal, detections |-> results,
                  positive |-> FALSE]
            ELSE IF \E i \in 1..Len(Val(results)) : is_non_normal(Val(results)[i])
            THEN [message |-> MsgStone, detections |-> results,
                  positive |-> TRUE]
            ELSE [message |-> MsgNormal, detections |-> results,
                  positive |-> FALSE]

interpret_results(rj) ==
    LET images == GetDefault(rj, "images", Some(<<>>))
    IN  IF Falsy(images)
        THEN [message |-> MsgNoPrediction, detections |-> Some(<<>>),
              positive |-> FALSE]
        ELSE
        LET results == GetDefault(Val(images)[1], "results", Some(<<>>))
        IN  IF Falsy(results)
            THEN [message |-> MsgNormal, detections |-> results,
                  positive |-> FALSE]
            ELSE
            LET has_non_normal ==
                    \E i \in 1..Len(Val(results)) : is_non_normal(Val(results)[i])
            IN  IF has_non_normal
                THEN [message |-> MsgStone, detections |-> results,
                      positive |-> TRUE]
                ELSE [message |-> MsgNormal, detections |-> results,
                      positive |-> FALSE]

---------------------------------------------------------------------------
(* draw_bounding_boxes, lines 48-71. *)

\* det.get("box") or {}
BoxOrEmpty(det) ==
    IF Falsy(Get(det, "box")) THEN <<>> ELSE Val(Get(det, "box"))

\* Mutant: line 59 skips only a detection with no coordinates at all.
missing_coord_box_only(det) == DOMAIN BoxOrEmpty(det) = {}

\* line 59: None in (x1, x2, y1, y2)
missing_coord(det) ==
    LET box == BoxOrEmpty(det)
    IN  \E k \in {"x1", "x2", "y1", "y2"} : IsNone(Get(box, k))

\* (det.get("name") or "object").strip(), line 62
label_of(det) ==
    Strip(IF Falsy(Get(det, "name")) THEN S_object ELSE Val(Get(det, "name")))

\* Mutant: the label is compared as the interpreter compares it, untrimmed.
color_of_untrimmed(det) ==
    IF Lower(IF Falsy(Get(det, "name")) THEN S_object ELSE Val(Get(det, "name")))
         \in normal_labels
    THEN "green" ELSE "red"

\* lines 65-67
color_of(det) ==
    IF Lower(label_of(det)) \in normal_labels THEN "green" ELSE "red"

\* line 69: draw.rectangle([x1, y1, x2, y2], outline=color, width=3), with
\* x1..y2 as box.get returned them at lines 54-57.
rectangle(det) ==
    LET box == BoxOrEmpty(det)
    IN  [xy |-> <<Get(box, "x1"), Get(box, "y1"), Get(box, "x2"), Get(box, "y2")>>,
         outline |-> color_of(det), width |-> 3]

\* The loop of lines 52-69: the rectangles drawn, in drawing order.
RECURSIVE draw_loop(_)
draw_loop(dets) ==
    IF dets = <<>> THEN <<>>
    ELSE IF missing_coord(Head(dets)) THEN draw_loop(Tail(dets))
    ELSE <<rectangle(Head(dets))>> \o draw_loop(Tail(dets))

\* Image.open raises on bytes that are no image (line 49).  detections or []
draw_bounding_boxes(image_bytes, detections) ==
    IF ~image_bytes.decodable
    THEN [raised |-> Raise("PIL.UnidentifiedImageError"), image |-> None]
    ELSE [raised |-> NoExc,
          image |-> Some(draw_loop(IF Falsy(detections) THEN <<>>
                                    ELSE Val(detections)))]

---------------------------------------------------------------------------
(* Inputs: what the environment, the user and the remote service supply. *)

\* os.getenv(name, default), line 11: the default only when the variable is unset.
getenv(env, dflt) == IF IsNone(env) THEN dflt ELSE Val(env)
\* Stands for the 40 hexadecimal digits of line 11.
DefaultKey == <<98,97,57,101>>
\* ULTRALYTICS_API_KEY: unset, set to the empty string, set to a key, set to
\* a key with a leading space, with an em space inside, with a final line feed.
EnvValues ==
    {None, Some(<<>>), Some(<<107,51,121>>), Some(<<32,107,51,121>>),
     Some(<<107,8195,121>>), Some(<<107,51,121,10>>)}

\* Uploaded files: bytes PIL can decode, and bytes it cannot.
Files == {[decodable |-> TRUE], [decodable |-> FALSE]}

S_Normal == <<78,111,114,109,97,108>>  \* "Normal"
S_Stone == <<83,116,111,110,101>>  \* "Stone"
S_NORMAL_KIDNEY == <<78,79,82,77,65,76,95,75,73,68,78,69,89>>  \* "NORMAL_KIDNEY"

S_Kelvin_idney == <<8490,105,100,110,101,121>>  \* "\u212aidney"

\* Values of a detection's "name": null, "", and labels in several casings
\* (the Kelvin sign lower-cases to k) and with surrounding whitespace (a
\* space, a form feed).
NameSlots ==
    {None, Some(<<>>), Some(S_normal), Some(S_Normal), Some(S_NORMAL_KIDNEY),
     Some(S_normal \o <<32>> \o S_kidney), Some(S_normal \o <<32>>),
     Some(<<12>> \o S_Normal \o <<32>> \o S_kidney),
     Some(S_normal \o <<32>> \o S_Kelvin_idney), Some(S_Stone)}

Dict1(k, v) == [x \in {k} |-> v]
Merge(a, b) ==
    [x \in DOMAIN a \cup DOMAIN b |-> IF x \in DOMAIN a THEN a[x] ELSE b[x]]
Without(d, k) == [x \in DOMAIN d \ {k} |-> d[x]]

FullBox == [x1 |-> Some(10), y1 |-> Some(10), x2 |-> Some(50), y2 |-> Some(50)]
ZeroBox == [x1 |-> Some(0), y1 |-> Some(0), x2 |-> Some(40), y2 |-> Some(30)]
\* Boxes lacking something: a key absent, a coordinate null, no coordinates.
PartialBoxes ==
    {Without(FullBox, k) : k \in DOMAIN FullBox}
        \cup {[FullBox EXCEPT !["y1"] = None], <<>>}

\* Every name on a full box; a stone on every box lacking something; a stone
\* and a normal label on the box with zeros; a null box, no "box" key, no
\* "name" key.
DetPool ==
    {Merge(Dict1("name", n), Dict1("box", Some(FullBox))) : n \in NameSlots}
        \cup {Merge(Dict1("name", Some(S_Stone)), Dict1("box", Some(b))) :
                b \in PartialBoxes}
        \cup {Merge(Dict1("name", Some(n)), Dict1("box", Some(ZeroBox))) :
                n \in {S_Stone, S_normal}}
        \cup {Merge(Dict1("name", Some(S_Stone)), Dict1("box", None)),
              Dict1("name", Some(S_normal)),
              Dict1("box", Some(FullBox))}

DetLists == UNION {[1..n -> DetPool] : n \in 0..MaxDets}
ShortLists == {<<>>} \cup {<<d>> : d \in DetPool}

Group(l) == Dict1("results", Some(l))
StoneGroup == Group(<<Merge(Dict1("name", Some(S_Stone)), Dict1("box", Some(FullBox)))>>)

\* Parsed JSON bodies of a successful reply: no "images" key, images null,
\* no group, one group (with a list, with results null, without "results"),
\* and a second group after a short first one.
Responses ==
    {<<>>, Dict1("images", None), Dict1("images", Some(<<>>)),
     Dict1("images", Some(<< <<>> >>)),
     Dict1("images", Some(<<Dict1("results", None)>>))}
        \cup {Dict1("images", Some(<<Group(l)>>)) : l \in DetLists}
        \cup {Dict1("images", Some(<<Group(l), StoneGroup>>)) : l \in ShortLists}

Reply(status, body) == [kind |-> "response", status |-> status, body |-> body]
NetOutcomes ==
    {[kind |-> "timeout", status |-> 0, body |-> None],
     [kind |-> "connection", status |-> 0, body |-> None],
     Reply(404, None), Reply(500, None), Reply(200, None)}
        \cup {Reply(200, Some(r)) : r \in Responses}

---------------------------------------------------------------------------
(* The page: one run of main() per user interaction.  The title, the       *)
(* introduction and the policy text of lines 75-119 are the same in every  *)
(* run and are left out of display.                                        *)

Item(w, t) == [widget |-> w, text |-> t, exc |-> NoExc]
InfoItem == Item("info", "Please read and agree to the Privacy Policy above to proceed with image upload and analysis.")
UploaderItem == Item("file_uploader", "Upload an ultrasound image for kidney stone detection")
ImageItem == Item("image", "Analyzed Image")
ExpanderItem == Item("expander", "View Raw Model Output")
JsonItem == Item("json", "result_json")
\* lines 144-147
VerdictItem(v) == Item(IF v.positive THEN "error" ELSE "success", v.message)
\* line 152
ExceptItem(e) ==
    [widget |-> "error",
     text |-> "An error occurred while processing the image: {e}", exc |-> e]

Init ==
    /\ API_KEY \in {getenv(e, DefaultKey) : e \in EnvValues}
    /\ checkbox = FALSE
    /\ uploader = None
    /\ rerun_requested = FALSE
    /\ agree = FALSE
    /\ uploaded_file = None
    /\ pc = "main"
    /\ display = <<>>
    /\ posts = 0
    /\ result_json = None
    /\ verdict = None
    /\ annotated_image = None
    /\ exc = NoExc

run == <<agree, uploaded_file, pc, display, posts, result_json, verdict,
         annotated_image, exc>>

\* Streamlit runs main() again, with fresh locals, on an empty page.
Rerun ==
    /\ rerun_requested' = FALSE
    /\ agree' = FALSE
    /\ uploaded_file' = None
    /\ pc' = "main"
    /\ display' = <<>>
    /\ posts' = 0
    /\ result_json' = None
    /\ verdict' = None
    /\ annotated_image' = None
    /\ exc' = NoExc

\* A widget changed: outside a run main() is run again at once; during a
\* run, which may be waiting at line 24, the request is recorded and the
\* script goes on until its next st.* call.
Request ==
    IF pc = "idle" THEN Rerun
    ELSE rerun_requested' = TRUE /\ UNCHANGED run

Shown(w) == \E i \in DOMAIN display : display[i].widget = w

ToggleAgree ==
    /\ checkbox' = ~checkbox
    /\ Request
    /\ UNCHANGED <<API_KEY, uploader>>

Upload ==
    /\ Shown("file_uploader")
    /\ \E f \in Files : uploader' = Some(f)
    /\ Request
    /\ UNCHANGED <<API_KEY, checkbox>>

ClearUpload ==
    /\ Shown("file_uploader")
    /\ ~IsNone(uploader)
    /\ uploader' = None
    /\ Request
    /\ UNCHANGED <<API_KEY, checkbox>>

\* The positions of main() whose next operation is a st.* call.
StCalls ==
    {"main", "gate", "spinner", "image", "verdict", "expander", "json", "except"}

\* The st.* call the script has reached stops it: a rerun was requested.
Interrupt ==
    /\ rerun_requested
    /\ pc \in StCalls
    /\ Rerun
    /\ UNCHANGED <<API_KEY, checkbox, uploader>>

\* lines 75-121: the static part of the page, then agree = st.checkbox(..)
Checkbox ==
    /\ pc = "main"
    /\ ~rerun_requested
    /\ agree' = checkbox
    /\ pc' = "gate"
    /\ UNCHANGED <<API_KEY, checkbox, uploader, rerun_requested, uploaded_file,
                   display, posts, result_json, verdict, annotated_image, exc>>

\* lines 123-125
Info ==
    /\ pc = "gate"
    /\ ~rerun_requested
    /\ ~agree
    /\ display' = Append(display, InfoItem)
    /\ pc' = "idle"
    /\ UNCHANGED <<API_KEY, checkbox, uploader, rerun_requested, agree,
                   uploaded_file, posts, result_json, verdict, annotated_image,
                   exc>>

\* Mutant: the return of line 125 is missing.
FileUploaderNoGate ==
    /\ pc = "gate"
    /\ ~rerun_requested
    /\ uploaded_file' = uploader
    /\ display' = Append(display, UploaderItem)
    /\ pc' = IF IsNone(uploader) THEN "idle" ELSE "spinner"
    /\ UNCHANGED <<API_KEY, checkbox, uploader, rerun_requested, agree, posts,
                   result_json, verdict, annotated_image, exc>>

\* lines 127-133, past the gate
FileUploader ==
    /\ pc = "gate"
    /\ ~rerun_requested
    /\ agree
    /\ uploaded_file' = uploader
    /\ display' = Append(display, UploaderItem)
    /\ pc' = IF IsNone(uploader) THEN "idle" ELSE "spinner"
    /\ UNCHANGED <<API_KEY, checkbox, uploader, rerun_requested, agree, posts,
                   result_json, verdict, annotated_image, exc>>

\* lines 134-137: uploaded_file.read(), then st.spinner(..)
Spinner ==
    /\ pc = "spinner"
    /\ ~rerun_requested
    /\ pc' = "call"
    /\ UNCHANGED <<API_KEY, checkbox, uploader, rerun_requested, agree,
                   uploaded_file, display, posts, result_json, verdict,
                   annotated_image, exc>>

\* line 138, up to the connection: the key check of lines 16-17, then
\* requests.post, which either refuses the header value at once or connects
\* and waits.  Whether a connection is opened does not depend on net.
Send ==
    /\ pc = "call"
    /\ \E net \in NetOutcomes :
         LET r == call_ultralytics_api(API_KEY, Val(uploaded_file), net)
         IN  /\ posts' = posts + r.posts
             /\ IF r.connects = 0
                THEN exc' = r.raised /\ pc' = "except"
                ELSE pc' = "wait" /\ UNCHANGED exc
    /\ UNCHANGED <<API_KEY, checkbox, uploader, rerun_requested, agree,
                   uploaded_file, display, result_json, verdict, annotated_image>>

\* line 138, from the connection on: the request fails, or the reply arrives
\* and lines 25-26 raise or return the parsed body.
Receive ==
    /\ pc = "wait"
    /\ \E net \in NetOutcomes :
         LET r == call_ultralytics_api(API_KEY, Val(uploaded_file), net)
         IN  IF r.raised # NoExc
             THEN /\ exc' = r.raised
                  /\ pc' = "except"
                  /\ UNCHANGED result_json
             ELSE /\ result_json' = Some(r.value)
                  /\ pc' = "interpret"
                  /\ UNCHANGED exc
    /\ UNCHANGED <<API_KEY, checkbox, uploader, rerun_requested, agree,
                   uploaded_file, display, posts, verdict, annotated_image>>

\* Mutant: the verdict banner of lines 144-147 is shown before drawing.
InterpretEager ==
    /\ pc = "interpret"
    /\ verdict' = Some(interpret_results(Val(result_json)))
    /\ display' = Append(display, VerdictItem(interpret_results(Val(result_json))))
    /\ pc' = "draw"
    /\ UNCHANGED <<API_KEY, checkbox, uploader, rerun_requested, agree,
                   uploaded_file, posts, result_json, annotated_image, exc>>

\* line 139
Interpret ==
    /\ pc = "interpret"
    /\ verdict' = Some(interpret_results(Val(result_json)))
    /\ pc' = "draw"
    /\ UNCHANGED <<API_KEY, checkbox, uploader, rerun_requested, agree,
                   uploaded_file, display, posts, result_json, annotated_image,
                   exc>>

\* line 140
Draw ==
    /\ pc = "draw"
    /\ LET r == draw_bounding_boxes(Val(uploaded_file), Val(verdict).detections)
       IN  IF r.raised # NoExc
           THEN /\ exc' = r.raised
                /\ pc' = "except"
                /\ UNCHANGED annotated_image
           ELSE /\ annotated_image' = r.image
                /\ pc' = "image"
                /\ UNCHANGED exc
    /\ UNCHANGED <<API_KEY, checkbox, uploader, rerun_requested, agree,
                   uploaded_file, display, posts, result_json, verdict>>

\* line 142
ShowImage ==
    /\ pc = "image"
    /\ ~rerun_requested
    /\ display' = Append(display, ImageItem)
    /\ pc' = "verdict"
    /\ UNCHANGED <<API_KEY, checkbox, uploader, rerun_requested, agree,
                   uploaded_file, posts, result_json, verdict, annotated_image,
                   exc>>

\* lines 144-147
ShowVerdict ==
    /\ pc = "verdict"
    /\ ~rerun_requested
    /\ display' = Append(display, VerdictItem(Val(verdict)))
    /\ pc' = "expander"
    /\ UNCHANGED <<API_KEY, checkbox, uploader, rerun_requested, agree,
                   uploaded_file, posts, result_json, verdict, annotated_image,
                   exc>>

\* line 149
Expander ==
    /\ pc = "expander"
    /\ ~rerun_requested
    /\ display' = Append(display, ExpanderItem)
    /\ pc' = "json"
    /\ UNCHANGED <<API_KEY, checkbox, uploader, rerun_requested, agree,
                   uploaded_file, posts, result_json, verdict, annotated_image,
                   exc>>

\* line 150
Json ==
    /\ pc = "json"
    /\ ~rerun_requested
    /\ display' = Append(display, JsonItem)
    /\ pc' = "idle"
    /\ UNCHANGED <<API_KEY, checkbox, uploader, rerun_requested, agree,
                   uploaded_file, posts, result_json, verdict, annotated_image,
                   exc>>

\* lines 151-152
Except ==
    /\ pc = "except"
    /\ ~rerun_requested
    /\ display' = Append(display, ExceptItem(exc))
    /\ pc' = "idle"
    /\ UNCHANGED <<API_KEY, checkbox, uploader, rerun_requested, agree,
                   uploaded_file, posts, result_json, verdict, annotated_image,
                   exc>>

Next ==
    \/ ToggleAgree
    \/ Upload
    \/ ClearUpload
    \/ Interrupt
    \/ Checkbox
    \/ Info
    \/ FileUploader
    \/ Spinner
    \/ Send
    \/ Receive
    \/ Interpret
    \/ Draw
    \/ ShowImage
    \/ ShowVerdict
    \/ Expander
    \/ Json
    \/ Except

Spec == Init /\ [][Next]_vars

---------------------------------------------------------------------------
(* Vocabulary of the properties, stated without the program's operators. *)

\* The normal-label set as the specification writes it.
NormalVocabulary ==
    {<<110,111,114,109,97,108,32,107,105,100,110,101,121>>,  \* "normal kidney"
     <<110,111,114,109,97,108,95,107,105,100,110,101,121>>,  \* "normal_kidney"
     <<110,111,114,109,97,108>>}  \* "normal"

HasName(det) == "name" \in DOMAIN det /\ ~IsNone(det["name"])
\* The label is normal when compared case-insensitively.
NormalCI(det) == HasName(det) /\ Lower(Val(det["name"])) \in NormalVocabulary
\* The label is normal when lower-cased and trimmed.
NormalTrimmedCI(det) ==
    HasName(det) /\ Lower(Strip(Val(det["name"]))) \in NormalVocabulary

\* All four coordinates are present (0 counts as present).
Complete(det) ==
    /\ "box" \in DOMAIN det
    /\ ~IsNone(det["box"])
    /\ \A k \in {"x1", "y1", "x2", "y2"} :
          k \in DOMAIN Val(det["box"]) /\ ~IsNone(Val(det["box"])[k])

\* The response of the current run, once it has arrived.
Response == Val(result_json)
HasGroup ==
    /\ ~IsNone(result_json)
    /\ "images" \in DOMAIN Response
    /\ ~IsNone(Response["images"])
    /\ Len(Val(Response["images"])) > 0
\* The first image-result group carries a detection list.
HasFirstList ==
    /\ HasGroup
    /\ "results" \in DOMAIN Val(Response["images"])[1]
    /\ ~IsNone(Val(Response["images"])[1]["results"])
FirstList == Val(Val(Response["images"])[1]["results"])

Interpreted == ~IsNone(verdict)
Drawn == ~IsNone(annotated_image)
\* The detections handed to the renderer.
Detections ==
    IF IsNone(Val(verdict).detections) THEN <<>> ELSE Val(Val(verdict).detections)

---------------------------------------------------------------------------
(* Properties. *)

\* C1: when the first group's detection list is non-empty and at least one
\* label is outside the normal-label set compared case-insensitively (a
\* detection with no label counts as outside), interpret_results returns
\* "Kidney Stone Detected", positive, with the whole list in its order; one
\* such detection is enough.
C1_AnyNonNormalIsPositive ==
    (/\ Interpreted
     /\ HasFirstList
     /\ \E i \in DOMAIN FirstList : ~NormalCI(FirstList[i]))
    => Val(verdict) = [message |-> MsgStone, detections |-> Some(FirstList),
                       positive |-> TRUE]

\* A two-detection list, normal first and a stone second, judged positive.
C1_Witness ==
    /\ Interpreted
    /\ HasFirstList
    /\ Len(FirstList) = 2
    /\ NormalCI(FirstList[1])
    /\ HasName(FirstList[2]) /\ ~NormalTrimmedCI(FirstList[2])
    /\ Val(verdict).positive

\* C2: when every label of a non-empty list is normal after lower-casing and
\* trimming, interpret_results returns the normal message and not positive.
C2_TrimmedNormalIsNegative ==
    (/\ Interpreted
     /\ HasFirstList
     /\ FirstList # <<>>
     /\ \A i \in DOMAIN FirstList : NormalTrimmedCI(FirstList[i]))
    => /\ Val(verdict).message = MsgNormal
       /\ ~Val(verdict).positive

\* C3: with an empty credential the run makes no request, never waits for a
\* reply or gets past the call, and the only exception it can raise is the
\* missing-key error, which no outcome of the network path raises.
C3_NoRequestWithoutKey ==
    API_KEY = <<>>
    => /\ posts = 0
       /\ pc \in {"main", "gate", "spinner", "call", "except", "idle"}
       /\ IsNone(result_json)
       /\ exc \in {NoExc, MissingKeyError}
       /\ pc = "except" => exc = MissingKeyError
       /\ \A net \in NetOutcomes, f \in Files, e \in EnvValues :
             post_and_parse(getenv(e, DefaultKey), f, net).raised
                # MissingKeyError

\* The run with an empty credential has ended on the missing-key message.
C3_Witness ==
    /\ API_KEY = <<>>
    /\ pc = "idle"
    /\ ~IsNone(uploaded_file)
    /\ display = <<UploaderItem, ExceptItem(MissingKeyError)>>

\* C4: a run that raised shows the uploader alone until its handler adds
\* the error message, and nothing else once finished; a finished run on an
\* upload that did not raise shows the image, the verdict and the raw
\* output; an exception always leads to the handler and back to the idle
\* page; after a non-success HTTP status no verdict exists.
C4_NoPartialResults ==
    /\ exc # NoExc
         => /\ pc \in {"except", "idle"}
            /\ pc = "except" => display = <<UploaderItem>>
            /\ pc = "idle" => display = <<UploaderItem, ExceptItem(exc)>>
    /\ exc.type = "requests.HTTPError" => IsNone(verdict)
    /\ pc = "idle" /\ exc = NoExc /\ agree /\ ~IsNone(uploaded_file)
         => /\ Interpreted
            /\ Drawn
            /\ display = <<UploaderItem, ImageItem, VerdictItem(Val(verdict)),
                           ExpanderItem, JsonItem>>

\* The verdict was computed, the image could not be decoded, and the page
\* shows the error alone.
C4_Witness ==
    /\ pc = "idle"
    /\ Interpreted
    /\ Val(verdict).positive
    /\ exc.type = "PIL.UnidentifiedImageError"
    /\ ~Shown("image")

\* C5: on a decodable image drawing never raises, whatever coordinates are
\* missing, and draws as many rectangles as there are detections with all
\* four coordinates.
C5_IncompleteSkipped ==
    /\ Interpreted /\ Val(uploaded_file).decodable
         => /\ exc = NoExc
            /\ pc \in {"draw", "image", "verdict", "expander", "json", "idle"}
    /\ Drawn
         => Len(Val(annotated_image))
              = Cardinality({i \in DOMAIN Detections : Complete(Detections[i])})

\* An incomplete detection first, a complete one after it, one rectangle.
C5_Witness ==
    /\ Drawn
    /\ Len(Detections) = 2
    /\ "box" \in DOMAIN Detections[1]
    /\ ~IsNone(Detections[1]["box"])
    /\ DOMAIN Val(Detections[1]["box"]) = {"x1", "y1", "x2"}
    /\ Complete(Detections[2])
    /\ Len(Val(annotated_image)) = 1

\* C6: the rectangles are, in order, one per complete detection, at its
\* coordinates, 3 wide, green when the label lower-cased and trimmed is
\* normal and red otherwise.
C6_OneRectanglePerCompleteDetection ==
    Drawn =>
      LET idx == {i \in DOMAIN Detections : Complete(Detections[i])}
          rank(i) == Cardinality({j \in idx : j <= i})
          box(i) == Val(Detections[i]["box"])
      IN  /\ Len(Val(annotated_image)) = Cardinality(idx)
          /\ \A i \in idx :
               Val(annotated_image)[rank(i)] =
                 [xy |-> <<box(i)["x1"], box(i)["y1"], box(i)["x2"], box(i)["y2"]>>,
                  outline |-> IF NormalTrimmedCI(Detections[i])
                              THEN "green" ELSE "red",
                  width |-> 3]

\* A red rectangle for "Stone" with a coordinate 0, then a green one for a
\* normal label with trailing whitespace.
C6_Witness ==
    /\ Drawn
    /\ Len(Val(annotated_image)) = 2
    /\ Len(Detections) = 2
    /\ HasName(Detections[1])
    /\ Val(Detections[1]["name"]) = S_Stone
    /\ Val(annotated_image)[1].xy[1] = Some(0)
    /\ Val(annotated_image)[1].outline = "red"
    /\ ~NormalCI(Detections[2]) /\ NormalTrimmedCI(Detections[2])
    /\ Val(annotated_image)[2].outline = "green"

\* C7: an empty detection list in the first group gives the normal message,
\* the empty list, not positive, and an image with no rectangle.
C7_EmptyListIsNormal ==
    HasFirstList /\ FirstList = <<>>
    => /\ Interpreted
          => Val(verdict) = [message |-> MsgNormal, detections |-> Some(<<>>),
                             positive |-> FALSE]
       /\ Drawn => Val(annotated_image) = <<>>

\* The run on an empty list has shown its image.
C7_Witness ==
    /\ HasFirstList
    /\ FirstList = <<>>
    /\ pc = "idle"
    /\ Drawn
    /\ Shown("image")
    /\ Shown("success")

\* C8: a response with no image-result group gives "No prediction
\* available", the empty list, not positive.
C8_NoGroupNoPrediction ==
    ~IsNone(result_json) /\ ~HasGroup /\ Interpreted
    => Val(verdict) = [message |-> MsgNoPrediction, detections |-> Some(<<>>),
                       positive |-> FALSE]

\* The response holds an empty "images" list and has been interpreted.
C8_Witness ==
    /\ ~IsNone(result_json)
    /\ Response = Dict1("images", Some(<<>>))
    /\ Interpreted
    /\ pc = "idle"

\* C9: a run that did not read the policy as acknowledged shows no
\* uploader, reads no file, makes no request and shows no image or verdict; a
\* request is made only by a run that read the policy as acknowledged and a
\* file as uploaded; a finished run has read the checkbox as it now is.
C9_PrivacyGate ==
    /\ ~agree
         => /\ posts = 0
            /\ pc \in {"main", "gate", "idle"}
            /\ \A i \in DOMAIN display : display[i] = InfoItem
            /\ IsNone(uploaded_file)
            /\ ~Interpreted
            /\ ~Drawn
    /\ posts > 0 => agree /\ ~IsNone(uploaded_file)
    /\ pc = "idle" => agree = checkbox

\* A file is held by the uploader, the box was unticked, the page shows the
\* notice only.
C9_Witness ==
    /\ ~checkbox
    /\ ~agree
    /\ ~IsNone(uploader)
    /\ pc = "idle"
    /\ display = <<InfoItem>>

\* C10: the interpreter counts a detection as normal exactly when the
\* renderer colours it green, and the verdict is positive exactly when some
\* detection is one the renderer colours red.
C10_InterpreterAgreesWithRenderer ==
    Interpreted
    => /\ \A i \in DOMAIN Detections :
            ~is_non_normal(Detections[i]) <=> color_of(Detections[i]) = "green"
       /\ Val(verdict).positive
            <=> \E i \in DOMAIN Detections : color_of(Detections[i]) = "red"

=============================================================================
